---- MODULE Spec2Model ----
(***************************************************************************)
(* OrderedSyncMap (src/lib/file/ordered_map.go): a map[int]interface{}     *)
(* with a sorted key slice and a key set, guarded by one sync.RWMutex.     *)
(* Callers are goroutines; every method is modelled from its Lock/RLock    *)
(* to its deferred Unlock/RUnlock, one action per statement group.         *)
(***************************************************************************)
EXTENDS Integers, Sequences, FiniteSets, TLC

\* ---------------------------------------------------------------- bounds
NumProcs == 2
MaxKey == 2
MaxVal == 1

\* The nil interface value (the zero value Load and LoadAndDelete return).
Nil == 0
NoProc == 0
NoKey == 0

Procs == 1..NumProcs
Keys == 1..MaxKey
Values == Nil..MaxVal

WriteOps == {"Store", "Delete", "LoadOrStore", "LoadAndDelete"}
ReadOps == {"Load", "Len", "Keys", "Range"}

VARIABLES
    keys,     \* m.keys: the key slice
    data,     \* m.data: map[int]interface{}, a function on its live keys
    keySet,   \* m.keySet: map[int]bool
    writer,   \* m.mu: the goroutine that has announced / holds the write lock
    readers,  \* m.mu: the goroutines holding the read lock
    pc,       \* per goroutine: position in its current call
    call,     \* per goroutine: the method and arguments, known once the body runs
    ret,      \* per goroutine: the result built so far
    rng,      \* per goroutine: the slice a Range loop iterates (range m.keys)
    pos,      \* per goroutine: the index of a Range loop
    abs,      \* history: the atomic sorted map, updated once per call
    exp,      \* history: per goroutine, the result the atomic map gives
    plan,     \* the scenario the callers follow, fixed from the start
    mem       \* the backing arrays of m.keys and of a slice Keys() returned

vars == <<keys, data, keySet, writer, readers, pc, call, ret, rng, pos, abs, exp, plan, mem>>

NoCall == [op |-> "none", key |-> NoKey, val |-> Nil]
EmptyMap == [k \in {} |-> Nil]

\* ------------------------------------------------------- Go primitives
\* m[k] = v on a Go map.
MapSet(m, k, v) == [x \in (DOMAIN m) \cup {k} |-> IF x = k THEN v ELSE m[x]]

\* delete(m, k) on a Go map.
MapDelete(m, k) == [x \in (DOMAIN m) \ {k} |-> m[x]]

\* m.keySet[k]: false when k has no entry.
KeySetHas(ks, k) == k \in DOMAIN ks /\ ks[k]

\* Mutant of Search: the comparison of a search over a descending slice.
RECURSIVE SearchDescending(_, _, _, _)
SearchDescending(a, x, lo, hi) ==
    IF lo < hi
    THEN LET h == (lo + hi) \div 2
         IN  IF a[h + 1] > x THEN SearchDescending(a, x, h + 1, hi)
                             ELSE SearchDescending(a, x, lo, h)
    ELSE lo

\* sort.SearchInts(a, x): binary search for the smallest 0-based index i with
\* a[i] >= x, len(a) if there is none.  lo, hi are 0-based, a is 1-based.
RECURSIVE Search(_, _, _, _)
Search(a, x, lo, hi) ==
    IF lo < hi
    THEN LET h == (lo + hi) \div 2
         IN  IF a[h + 1] < x THEN Search(a, x, h + 1, hi)
                             ELSE Search(a, x, lo, h)
    ELSE lo

SearchInts(a, x) == Search(a, x, 0, Len(a))

\* Mutant of InsertAt: the key is appended, the search position is not used.
InsertAtEnd(a, p, k) == Append(a, k)

\* Mutant of InsertAt: the copy that shifts the tail is missing.
InsertAtNoShift(a, p, k) == [Append(a, 0) EXCEPT ![p + 1] = k]

\* keys = append(keys, 0); copy(keys[p+1:], keys[p:]); keys[p] = k   (p 0-based)
InsertAt(a, p, k) ==
    LET grown == Append(a, 0)
        moved == [i \in 1..Len(grown) |->
                    IF i - 1 >= p + 1 THEN grown[i - 1] ELSE grown[i]]
    IN  [moved EXCEPT ![p + 1] = k]

\* Mutant of RemoveAt: the slice bounds are off by one, the element after p
\* is the one dropped.
RemoveAtNext(a, p) == SubSeq(a, 1, p + 1) \o SubSeq(a, p + 3, Len(a))

\* keys = append(keys[:p], keys[p+1:]...)   (p 0-based)
RemoveAt(a, p) == SubSeq(a, 1, p) \o SubSeq(a, p + 2, Len(a))

\* ------------------------------------------------------------ the atomic map
RECURSIVE SortedSeq(_)
SortedSeq(S) ==
    IF S = {} THEN <<>>
    ELSE LET lo == CHOOSE x \in S : \A y \in S : x <= y
         IN  <<lo>> \o SortedSeq(S \ {lo})

\* What a method hands back, one field per result the methods declare:
\* (value, ok) of Load, LoadOrStore and LoadAndDelete, the int of Len, the
\* slice of Keys; visits lists the calls Range made to its callback.  A
\* method that returns nothing leaves the zero values.
NoResult == [value |-> Nil, ok |-> FALSE, n |-> 0, keys |-> <<>>, visits |-> <<>>]
Found(v, b) == [NoResult EXCEPT !.value = v, !.ok = b]
Count(c) == [NoResult EXCEPT !.n = c]
KeyList(ks) == [NoResult EXCEPT !.keys = ks]
Visited(es) == [NoResult EXCEPT !.visits = es]

\* The visit callback of a Range call: it returns false on the key `stop`.
VisitReturns(stop, k) == k # stop

\* The visits of a Range over map m, its keys ks in order, callback `stop`.
RECURSIVE VisitsOf(_, _, _)
VisitsOf(m, ks, stop) ==
    IF ks = <<>> THEN <<>>
    ELSE IF VisitReturns(stop, Head(ks))
         THEN <<(<<Head(ks), m[Head(ks)]>>)>> \o VisitsOf(m, Tail(ks), stop)
         ELSE <<(<<Head(ks), m[Head(ks)]>>)>>

AbsResult(c, m) ==
    CASE c.op = "Store" -> NoResult
      [] c.op = "Delete" -> NoResult
      [] c.op = "Load" ->
            IF c.key \in DOMAIN m THEN Found(m[c.key], TRUE) ELSE Found(Nil, FALSE)
      [] c.op = "LoadOrStore" ->
            IF c.key \in DOMAIN m THEN Found(m[c.key], TRUE) ELSE Found(c.val, FALSE)
      [] c.op = "LoadAndDelete" ->
            IF c.key \in DOMAIN m THEN Found(m[c.key], TRUE) ELSE Found(Nil, FALSE)
      [] c.op = "Len" -> Count(Cardinality(DOMAIN m))
      [] c.op = "Keys" -> KeyList(SortedSeq(DOMAIN m))
      [] c.op = "Range" -> Visited(VisitsOf(m, SortedSeq(DOMAIN m), c.key))
      [] OTHER -> NoResult

AbsApply(c, m) ==
    CASE c.op = "Store" -> MapSet(m, c.key, c.val)
      [] c.op = "Delete" -> MapDelete(m, c.key)
      [] c.op = "LoadOrStore" ->
            IF c.key \in DOMAIN m THEN m ELSE MapSet(m, c.key, c.val)
      [] c.op = "LoadAndDelete" -> MapDelete(m, c.key)
      [] OTHER -> m

\* ------------------------------------------------------- slices in memory
\* A Go slice is a header (array, length) over a backing array that other
\* headers may share.  mem.heap maps the arrays in use to their contents, an
\* array's length being its capacity; mem.int is the size of an int on the
\* build that runs; mem.keys is the header of m.keys,
\* mem.out the header of the slice the last Keys() call returned and mem.snap
\* what that slice held when it was returned.  The methods called one after
\* the other (SpecMem) keep mem; the steps of concurrent callers work on the
\* elements of m.keys alone.
Arrs == {"a1", "a2", "a3"}
NoArr == "none"
NoSlice == [arr |-> NoArr, len |-> 0]

\* s[0:len(s)]
Elements(h, s) == IF s.arr = NoArr THEN <<>> ELSE SubSeq(h[s.arr], 1, s.len)

\* cap(s)
Cap(h, s) == Len(h[s.arr])

\* An array no header points to is garbage.
Collect(h, live) == [a \in (DOMAIN h) \cap live |-> h[a]]

NewArr(h) == CHOOSE a \in Arrs : a \notin DOMAIN h

\* The gc runtime (go 1.18 and later), for a []int: the sizes in bytes an int
\* has on the builds made (GOARCH=386 and arm, amd64 and arm64), the capacity
\* below which append doubles, the sizes of the small allocation classes and
\* the page that larger allocations are rounded to.
IntSizes == {4, 8}
GrowThreshold == 256
PageSize == 8192
SizeClasses ==
    <<8, 16, 24, 32, 48, 64, 80, 96, 112, 128, 144, 160, 176, 192, 208, 224,
      240, 256, 288, 320, 352, 384, 416, 448, 480, 512, 576, 640, 704, 768,
      896, 1024, 1152, 1280, 1408, 1536, 1792, 2048, 2304, 2688, 3072, 3200,
      3456, 4096, 4864, 5376, 6144, 6528, 6784, 6912, 8192, 9472, 9728,
      10240, 10880, 12288, 13568, 14336, 16384, 18432, 19072, 20480, 21760,
      24576, 27264, 28672, 32768>>

\* The bytes malloc hands out for a request of `bytes` bytes (roundupsize).
RoundUpSize(bytes) ==
    IF bytes <= SizeClasses[Len(SizeClasses)]
    THEN LET i == CHOOSE j \in 1..Len(SizeClasses) :
                      /\ bytes <= SizeClasses[j]
                      /\ \A l \in 1..(j - 1) : SizeClasses[l] < bytes
         IN  SizeClasses[i]
    ELSE ((bytes + PageSize - 1) \div PageSize) * PageSize

\* The capacity append gives a full slice of capacity c when one element is
\* appended (growslice): one for an empty slice, the double below the
\* threshold, c + (c + 3 * threshold) / 4 from it on, rounded up to what the
\* allocation holds, for ints of w bytes.  The language leaves the amount to
\* the implementation.
GrowCap(c, w) ==
    LET want == IF c = 0 THEN 1
                ELSE IF c < GrowThreshold THEN c + c
                ELSE c + (c + 3 * GrowThreshold) \div 4
    IN  RoundUpSize(want * w) \div w

\* m.keys = append(m.keys, 0); copy(m.keys[p+1:], m.keys[p:]); m.keys[p] = k
\* (p 0-based): in place when the capacity allows, else in a new array;
\* an int has w bytes.
SliceInsert(h, s, p, k, w) ==
    LET n == s.len
        fits == n < Cap(h, s)
        a == IF fits THEN s.arr ELSE NewArr(h)
        grown == IF fits THEN h[s.arr]
                 ELSE [i \in 1..GrowCap(Cap(h, s), w) |->
                         IF i <= n THEN h[s.arr][i] ELSE 0]
        moved == [i \in 1..Len(grown) |->
                    IF i = p + 1 THEN k
                    ELSE IF i > p + 1 /\ i <= n + 1 THEN grown[i - 1]
                    ELSE grown[i]]
    IN  [heap |-> MapSet(h, a, moved), slice |-> [arr |-> a, len |-> n + 1]]

\* m.keys = append(m.keys[:p], m.keys[p+1:]...)   (p 0-based): the tail is
\* moved down inside the array, whose last used slot keeps its old element.
SliceRemove(h, s, p) ==
    LET n == s.len
        old == h[s.arr]
        moved == [i \in 1..Len(old) |-> IF i > p /\ i < n THEN old[i + 1] ELSE old[i]]
    IN  [heap |-> MapSet(h, s.arr, moved), slice |-> [arr |-> s.arr, len |-> n - 1]]

\* Mutant of SliceCopy: the slice itself is handed out, no copy is made.
SliceAlias(h, s) == [heap |-> h, slice |-> s]

\* result := make([]int, len(s)); copy(result, s)
SliceCopy(h, s) ==
    LET a == NewArr(h)
    IN  [heap |-> MapSet(h, a, Elements(h, s)), slice |-> [arr |-> a, len |-> s.len]]

\* The memory of the map NewOrderedSyncMap returns (keys: make([]int, 0)),
\* on a build whose ints have w bytes.
NewMem(w) ==
    [int |-> w,
     heap |-> [a \in {"a1"} |-> <<>>],
     keys |-> [arr |-> "a1", len |-> 0],
     out |-> NoSlice,
     snap |-> <<>>]

\* The memory of a new map after Store calls of the keys ks, ascending, in
\* their order: each key is inserted at the end of m.keys.
RECURSIVE StoredMem(_, _)
StoredMem(ks, w) ==
    IF ks = <<>> THEN NewMem(w)
    ELSE LET n == Len(ks)
             m == StoredMem(SubSeq(ks, 1, n - 1), w)
             r == SliceInsert(m.heap, m.keys, n - 1, ks[n], w)
         IN  [m EXCEPT !.heap = Collect(r.heap, {r.slice.arr}), !.keys = r.slice]

\* ------------------------------------------------------------------ Init
\* NewOrderedSyncMap: three empty structures, an unlocked mutex.
Init ==
    /\ keys = <<>>
    /\ data = EmptyMap
    /\ keySet = EmptyMap
    /\ writer = NoProc
    /\ readers = {}
    /\ pc = [p \in Procs |-> "idle"]
    /\ call = [p \in Procs |-> NoCall]
    /\ ret = [p \in Procs |-> NoResult]
    /\ rng = [p \in Procs |-> <<>>]
    /\ pos = [p \in Procs |-> 0]
    /\ abs = EmptyMap
    /\ exp = [p \in Procs |-> NoResult]
    /\ plan = NoCall
    /\ \E w \in IntSizes : mem = NewMem(w)

\* ------------------------------------------------------------ sync.RWMutex
\* Mutant of Lock: the writer mutex is not taken, so writers do not exclude
\* each other.
LockNoExclusion(p) ==
    /\ pc[p] = "idle"
    /\ writer' = p
    /\ pc' = [pc EXCEPT ![p] = "wlock"]
    /\ UNCHANGED <<keys, data, keySet, readers, call, ret, rng, pos, abs, exp, plan, mem>>

\* A goroutine calls one of the four mutating methods; the arguments play no
\* part until the body runs, so they are drawn there.
\* m.mu.Lock(), first half: take the writer mutex and announce the writer;
\* from here on new readers block.
Lock(p) ==
    /\ pc[p] = "idle"
    /\ writer = NoProc
    /\ writer' = p
    /\ pc' = [pc EXCEPT ![p] = "wlock"]
    /\ UNCHANGED <<keys, data, keySet, readers, call, ret, rng, pos, abs, exp, plan, mem>>

\* Mutant of LockAcquire: a reentrant lock, the writer does not wait for a
\* read lock it holds itself.
LockAcquireReentrant(p) ==
    /\ pc[p] = "wlock"
    /\ readers \ {p} = {}
    /\ pc' = [pc EXCEPT ![p] = "wheld"]
    /\ UNCHANGED <<keys, data, keySet, writer, readers, call, ret, rng, pos, abs, exp, plan, mem>>

\* Mutant of LockAcquire: the writer does not wait for the readers to leave.
LockAcquireNoWait(p) ==
    /\ pc[p] = "wlock"
    /\ pc' = [pc EXCEPT ![p] = "wheld"]
    /\ UNCHANGED <<keys, data, keySet, writer, readers, call, ret, rng, pos, abs, exp, plan, mem>>

\* m.mu.Lock(), second half: the readers that held the lock have all left.
LockAcquire(p) ==
    /\ pc[p] = "wlock"
    /\ readers = {}
    /\ pc' = [pc EXCEPT ![p] = "wheld"]
    /\ UNCHANGED <<keys, data, keySet, writer, readers, call, ret, rng, pos, abs, exp, plan, mem>>

\* Mutant of RLock: the read lock is granted although a writer holds the lock.
RLockNoWait(p) ==
    /\ pc[p] = "idle"
    /\ readers' = readers \cup {p}
    /\ pc' = [pc EXCEPT ![p] = "rheld"]
    /\ UNCHANGED <<keys, data, keySet, writer, call, ret, rng, pos, abs, exp, plan, mem>>

\* A goroutine calls one of the four read-only methods.
\* m.mu.RLock(): granted at once when no writer has announced itself,
\* otherwise the reader blocks until that writer's Unlock.
RLock(p) ==
    /\ pc[p] = "idle"
    /\ IF writer = NoProc
       THEN /\ readers' = readers \cup {p}
            /\ pc' = [pc EXCEPT ![p] = "rheld"]
       ELSE /\ pc' = [pc EXCEPT ![p] = "rblock"]
            /\ UNCHANGED readers
    /\ UNCHANGED <<keys, data, keySet, writer, call, ret, rng, pos, abs, exp, plan, mem>>

\* Mutant of UnlockTo: the blocked readers are not woken.
UnlockToNoWake(p, to) ==
    /\ pc[p] = "unlock"
    /\ writer' = NoProc
    /\ pc' = [pc EXCEPT ![p] = to]
    /\ UNCHANGED <<keys, data, keySet, readers, rng, pos, abs, plan, mem>>

\* Mutant of UnlockTo: the readers it wakes are not counted as holding the
\* lock, so the next writer does not wait for them.
UnlockToUncounted(p, to) ==
    /\ pc[p] = "unlock"
    /\ LET woken == {q \in Procs : pc[q] = "rblock"}
       IN  /\ writer' = NoProc
           /\ readers' = readers
           /\ pc' = [q \in Procs |->
                       IF q = p THEN to
                       ELSE IF q \in woken THEN "rheld" ELSE pc[q]]
    /\ UNCHANGED <<keys, data, keySet, rng, pos, abs, plan, mem>>

\* defer m.mu.Unlock(): release the write lock and wake every blocked reader;
\* the method returns and the caller is left at `to`.
UnlockTo(p, to) ==
    /\ pc[p] = "unlock"
    /\ LET woken == {q \in Procs : pc[q] = "rblock"}
       IN  /\ writer' = NoProc
           /\ readers' = readers \cup woken
           /\ pc' = [q \in Procs |->
                       IF q = p THEN to
                       ELSE IF q \in woken THEN "rheld" ELSE pc[q]]
    /\ UNCHANGED <<keys, data, keySet, rng, pos, abs, plan, mem>>

\* defer m.mu.RUnlock(): release the read lock; the method returns and the
\* caller is left at `to`.
RUnlockTo(p, to) ==
    /\ pc[p] = "runlock"
    /\ readers' = readers \ {p}
    /\ pc' = [pc EXCEPT ![p] = to]
    /\ UNCHANGED <<keys, data, keySet, writer, rng, pos, abs, plan, mem>>

\* The caller drops the result and is free to call again.
Forget(p) ==
    /\ call' = [call EXCEPT ![p] = NoCall]
    /\ ret' = [ret EXCEPT ![p] = NoResult]
    /\ exp' = [exp EXCEPT ![p] = NoResult]

Unlock(p) == UnlockTo(p, "idle") /\ Forget(p)

RUnlock(p) == RUnlockTo(p, "idle") /\ Forget(p)

\* The body of a method starts: its arguments are fixed, and the atomic map
\* performs the same call.
Enter(p, c) ==
    /\ call' = [call EXCEPT ![p] = c]
    /\ exp' = [exp EXCEPT ![p] = AbsResult(c, abs)]
    /\ abs' = AbsApply(c, abs)

Call(o, k, v) == [op |-> o, key |-> k, val |-> v]

\* ------------------------------------------------------------------ Store
\* Mutant of StoreKeys: a key already in keySet is left as it is, its value
\* is not replaced.
StoreKeysNoOverwrite(p, k, v) ==
    /\ pc[p] = "wheld"
    /\ Enter(p, Call("Store", k, v))
    /\ IF ~KeySetHas(keySet, k)
       THEN /\ keys' = InsertAt(keys, SearchInts(keys, k), k)
            /\ pc' = [pc EXCEPT ![p] = "keyset"]
       ELSE /\ pc' = [pc EXCEPT ![p] = "unlock"]
            /\ UNCHANGED keys
    /\ UNCHANGED <<data, keySet, writer, readers, ret, rng, pos, plan, mem>>

\* Store, lines 34-40: a key not in keySet is inserted at its sorted position.
StoreKeys(p, k, v) ==
    /\ pc[p] = "wheld"
    /\ Enter(p, Call("Store", k, v))
    /\ IF ~KeySetHas(keySet, k)
       THEN /\ keys' = InsertAt(keys, SearchInts(keys, k), k)
            /\ pc' = [pc EXCEPT ![p] = "keyset"]
       ELSE /\ pc' = [pc EXCEPT ![p] = "data"]
            /\ UNCHANGED keys
    /\ UNCHANGED <<data, keySet, writer, readers, ret, rng, pos, plan, mem>>

\* Store, line 41: m.keySet[k] = true.
StoreKeySet(p) ==
    /\ pc[p] = "keyset"
    /\ call[p].op = "Store"
    /\ keySet' = MapSet(keySet, call[p].key, TRUE)
    /\ pc' = [pc EXCEPT ![p] = "data"]
    /\ UNCHANGED <<keys, data, writer, readers, call, ret, rng, pos, abs, exp, plan, mem>>

\* Store, line 44: m.data[k] = value.
StoreData(p) ==
    /\ pc[p] = "data"
    /\ call[p].op = "Store"
    /\ data' = MapSet(data, call[p].key, call[p].val)
    /\ pc' = [pc EXCEPT ![p] = "unlock"]
    /\ UNCHANGED <<keys, keySet, writer, readers, call, ret, rng, pos, abs, exp, plan, mem>>

\* Mutant of DeleteKeys: neither the keySet test nor the keys[pos] == k test
\* is made, whatever stands at the search position is dropped.
DeleteKeysUnguarded(p, k) ==
    /\ pc[p] = "wheld"
    /\ Enter(p, Call("Delete", k, Nil))
    /\ LET at == SearchInts(keys, k)
       IN  keys' = IF at < Len(keys) THEN RemoveAt(keys, at) ELSE keys
    /\ pc' = [pc EXCEPT ![p] = "keyset"]
    /\ UNCHANGED <<data, keySet, writer, readers, ret, rng, pos, plan, mem>>

\* ----------------------------------------------------------------- Delete
\* Delete, lines 64-69: a key in keySet is removed from the slice, if the
\* binary search finds it.
DeleteKeys(p, k) ==
    /\ pc[p] = "wheld"
    /\ Enter(p, Call("Delete", k, Nil))
    /\ LET at == SearchInts(keys, k)
       IN  IF KeySetHas(keySet, k)
           THEN /\ keys' = IF at < Len(keys) /\ keys[at + 1] = k
                           THEN RemoveAt(keys, at) ELSE keys
                /\ pc' = [pc EXCEPT ![p] = "keyset"]
           ELSE /\ pc' = [pc EXCEPT ![p] = "unlock"]
                /\ UNCHANGED keys
    /\ UNCHANGED <<data, keySet, writer, readers, ret, rng, pos, plan, mem>>

\* Mutant of DeleteKeySet: the key stays in keySet.
DeleteKeySetSkipped(p) ==
    /\ pc[p] = "keyset"
    /\ call[p].op = "Delete"
    /\ pc' = [pc EXCEPT ![p] = "data"]
    /\ UNCHANGED <<keys, data, keySet, writer, readers, call, ret, rng, pos, abs, exp, plan, mem>>

\* Delete, line 70: delete(m.keySet, k).
DeleteKeySet(p) ==
    /\ pc[p] = "keyset"
    /\ call[p].op = "Delete"
    /\ keySet' = MapDelete(keySet, call[p].key)
    /\ pc' = [pc EXCEPT ![p] = "data"]
    /\ UNCHANGED <<keys, data, writer, readers, call, ret, rng, pos, abs, exp, plan, mem>>

\* Delete, line 71: delete(m.data, k).
DeleteData(p) ==
    /\ pc[p] = "data"
    /\ call[p].op = "Delete"
    /\ data' = MapDelete(data, call[p].key)
    /\ pc' = [pc EXCEPT ![p] = "unlock"]
    /\ UNCHANGED <<keys, keySet, writer, readers, call, ret, rng, pos, abs, exp, plan, mem>>

\* ------------------------------------------------------------ LoadOrStore
\* Mutant of LoadOrStoreKeys: a key in data is not returned, the call goes on
\* to write the new value as Store does.
LoadOrStoreKeysOverwrite(p, k, v) ==
    /\ pc[p] = "wheld"
    /\ Enter(p, Call("LoadOrStore", k, v))
    /\ IF k \in DOMAIN data
       THEN /\ pc' = [pc EXCEPT ![p] = "data"]
            /\ UNCHANGED keys
       ELSE /\ keys' = InsertAt(keys, SearchInts(keys, k), k)
            /\ pc' = [pc EXCEPT ![p] = "keyset"]
    /\ UNCHANGED <<data, keySet, writer, readers, ret, rng, pos, plan, mem>>

\* LoadOrStore, lines 97-107: a key in data is returned as it is; any other
\* key is inserted at its sorted position.
LoadOrStoreKeys(p, k, v) ==
    /\ pc[p] = "wheld"
    /\ Enter(p, Call("LoadOrStore", k, v))
    /\ IF k \in DOMAIN data
       THEN /\ ret' = [ret EXCEPT ![p] = Found(data[k], TRUE)]
            /\ pc' = [pc EXCEPT ![p] = "unlock"]
            /\ UNCHANGED keys
       ELSE /\ keys' = InsertAt(keys, SearchInts(keys, k), k)
            /\ pc' = [pc EXCEPT ![p] = "keyset"]
            /\ UNCHANGED ret
    /\ UNCHANGED <<data, keySet, writer, readers, rng, pos, plan, mem>>

\* LoadOrStore, line 108: m.keySet[k] = true.
LoadOrStoreKeySet(p) ==
    /\ pc[p] = "keyset"
    /\ call[p].op = "LoadOrStore"
    /\ keySet' = MapSet(keySet, call[p].key, TRUE)
    /\ pc' = [pc EXCEPT ![p] = "data"]
    /\ UNCHANGED <<keys, data, writer, readers, call, ret, rng, pos, abs, exp, plan, mem>>

\* LoadOrStore, lines 109-111: m.data[k] = value; return value, false.
LoadOrStoreData(p) ==
    /\ pc[p] = "data"
    /\ call[p].op = "LoadOrStore"
    /\ data' = MapSet(data, call[p].key, call[p].val)
    /\ ret' = [ret EXCEPT ![p] = Found(call[p].val, FALSE)]
    /\ pc' = [pc EXCEPT ![p] = "unlock"]
    /\ UNCHANGED <<keys, keySet, writer, readers, call, rng, pos, abs, exp, plan, mem>>

\* Mutant of LoadAndDeleteKeys: the value of the removed entry is not read
\* before the entry goes, nil is returned with true.
LoadAndDeleteKeysValueLost(p, k) ==
    /\ pc[p] = "wheld"
    /\ Enter(p, Call("LoadAndDelete", k, Nil))
    /\ LET at == SearchInts(keys, k)
       IN  IF k \in DOMAIN data
           THEN /\ ret' = [ret EXCEPT ![p] = Found(Nil, TRUE)]
                /\ keys' = IF at < Len(keys) /\ keys[at + 1] = k
                           THEN RemoveAt(keys, at) ELSE keys
                /\ pc' = [pc EXCEPT ![p] = "keyset"]
           ELSE /\ ret' = [ret EXCEPT ![p] = Found(Nil, FALSE)]
                /\ pc' = [pc EXCEPT ![p] = "unlock"]
                /\ UNCHANGED keys
    /\ UNCHANGED <<data, keySet, writer, readers, rng, pos, plan, mem>>

\* ---------------------------------------------------------- LoadAndDelete
\* LoadAndDelete, lines 121-126 and 132: a key in data has its value taken
\* and is removed from the slice, if the binary search finds it; any other
\* key gives nil, false.
LoadAndDeleteKeys(p, k) ==
    /\ pc[p] = "wheld"
    /\ Enter(p, Call("LoadAndDelete", k, Nil))
    /\ LET at == SearchInts(keys, k)
       IN  IF k \in DOMAIN data
           THEN /\ ret' = [ret EXCEPT ![p] = Found(data[k], TRUE)]
                /\ keys' = IF at < Len(keys) /\ keys[at + 1] = k
                           THEN RemoveAt(keys, at) ELSE keys
                /\ pc' = [pc EXCEPT ![p] = "keyset"]
           ELSE /\ ret' = [ret EXCEPT ![p] = Found(Nil, FALSE)]
                /\ pc' = [pc EXCEPT ![p] = "unlock"]
                /\ UNCHANGED keys
    /\ UNCHANGED <<data, keySet, writer, readers, rng, pos, plan, mem>>

\* LoadAndDelete, line 127: delete(m.keySet, k).
LoadAndDeleteKeySet(p) ==
    /\ pc[p] = "keyset"
    /\ call[p].op = "LoadAndDelete"
    /\ keySet' = MapDelete(keySet, call[p].key)
    /\ pc' = [pc EXCEPT ![p] = "data"]
    /\ UNCHANGED <<keys, data, writer, readers, call, ret, rng, pos, abs, exp, plan, mem>>

\* Mutant of LoadAndDeleteData: the entry stays in data.
LoadAndDeleteDataKept(p) ==
    /\ pc[p] = "data"
    /\ call[p].op = "LoadAndDelete"
    /\ pc' = [pc EXCEPT ![p] = "unlock"]
    /\ UNCHANGED <<keys, data, keySet, writer, readers, call, ret, rng, pos, abs, exp, plan, mem>>

\* LoadAndDelete, lines 128-129: delete(m.data, k); return v, true.
LoadAndDeleteData(p) ==
    /\ pc[p] = "data"
    /\ call[p].op = "LoadAndDelete"
    /\ data' = MapDelete(data, call[p].key)
    /\ pc' = [pc EXCEPT ![p] = "unlock"]
    /\ UNCHANGED <<keys, keySet, writer, readers, call, ret, rng, pos, abs, exp, plan, mem>>

\* ---------------------------------------------------------------- readers
\* Load, lines 52-54: value, ok = m.data[k].
LoadBody(p, k) ==
    /\ pc[p] = "rheld"
    /\ Enter(p, Call("Load", k, Nil))
    /\ ret' = [ret EXCEPT ![p] =
                 IF k \in DOMAIN data THEN Found(data[k], TRUE) ELSE Found(Nil, FALSE)]
    /\ pc' = [pc EXCEPT ![p] = "runlock"]
    /\ UNCHANGED <<keys, data, keySet, writer, readers, rng, pos, plan, mem>>

\* Len, line 139: len(m.data).
LenBody(p) ==
    /\ pc[p] = "rheld"
    /\ Enter(p, Call("Len", NoKey, Nil))
    /\ ret' = [ret EXCEPT ![p] = Count(Cardinality(DOMAIN data))]
    /\ pc' = [pc EXCEPT ![p] = "runlock"]
    /\ UNCHANGED <<keys, data, keySet, writer, readers, rng, pos, plan, mem>>

\* Keys, lines 147-149: a fresh slice of len(m.keys), filled by copy.
KeysBody(p) ==
    /\ pc[p] = "rheld"
    /\ Enter(p, Call("Keys", NoKey, Nil))
    /\ ret' = [ret EXCEPT ![p] = KeyList([i \in 1..Len(keys) |-> keys[i]])]
    /\ pc' = [pc EXCEPT ![p] = "runlock"]
    /\ UNCHANGED <<keys, data, keySet, writer, readers, rng, pos, plan, mem>>

\* Range, line 81: the range expression m.keys is evaluated once.  The
\* callback of this call returns false on the key `stop` (on none if NoKey).
RangeBegin(p, stop) ==
    /\ pc[p] = "rheld"
    /\ Enter(p, Call("Range", stop, Nil))
    /\ rng' = [rng EXCEPT ![p] = keys]
    /\ pos' = [pos EXCEPT ![p] = 0]
    /\ pc' = [pc EXCEPT ![p] = "loop"]
    /\ UNCHANGED <<keys, data, keySet, writer, readers, ret, plan, mem>>

\* Mutant of RangeStep: the loop goes on after the callback returned false.
RangeStepNoBreak(p) ==
    /\ pc[p] = "loop"
    /\ IF pos[p] < Len(rng[p])
       THEN LET k == rng[p][pos[p] + 1]
            IN  /\ ret' = [ret EXCEPT ![p].visits =
                             IF k \in DOMAIN data THEN Append(@, <<k, data[k]>>) ELSE @]
                /\ pos' = [pos EXCEPT ![p] = @ + 1]
                /\ UNCHANGED <<pc, rng>>
       ELSE /\ pc' = [pc EXCEPT ![p] = "runlock"]
            /\ pos' = [pos EXCEPT ![p] = 0]
            /\ rng' = [rng EXCEPT ![p] = <<>>]
            /\ UNCHANGED ret
    /\ UNCHANGED <<keys, data, keySet, writer, readers, call, abs, exp, plan, mem>>

\* Range, lines 81-87: one iteration.  A key with no entry in data is
\* skipped; the loop ends when the callback returns false or the slice is
\* exhausted.  ret records the visits made.
RangeStep(p) ==
    /\ pc[p] = "loop"
    /\ IF pos[p] < Len(rng[p])
       THEN LET k == rng[p][pos[p] + 1]
            IN  IF k \in DOMAIN data
                THEN /\ ret' = [ret EXCEPT ![p].visits = Append(@, <<k, data[k]>>)]
                     /\ IF VisitReturns(call[p].key, k)
                        THEN /\ pos' = [pos EXCEPT ![p] = @ + 1]
                             /\ UNCHANGED <<pc, rng>>
                        ELSE /\ pc' = [pc EXCEPT ![p] = "runlock"]
                             /\ pos' = [pos EXCEPT ![p] = 0]
                             /\ rng' = [rng EXCEPT ![p] = <<>>]
                ELSE /\ pos' = [pos EXCEPT ![p] = @ + 1]
                     /\ UNCHANGED <<pc, ret, rng>>
       ELSE /\ pc' = [pc EXCEPT ![p] = "runlock"]
            /\ pos' = [pos EXCEPT ![p] = 0]
            /\ rng' = [rng EXCEPT ![p] = <<>>]
            /\ UNCHANGED ret
    /\ UNCHANGED <<keys, data, keySet, writer, readers, call, abs, exp, plan, mem>>

\* ------------------------------------------------------------------- Next
\* The steps inside a method body that follow its first.
Continue(p) ==
    \/ StoreKeySet(p) \/ StoreData(p)
    \/ DeleteKeySet(p) \/ DeleteData(p)
    \/ LoadOrStoreKeySet(p) \/ LoadOrStoreData(p)
    \/ LoadAndDeleteKeySet(p) \/ LoadAndDeleteData(p)
    \/ RangeStep(p)

Next ==
    \E p \in Procs :
        \/ Lock(p) \/ LockAcquire(p) \/ Unlock(p)
        \/ RLock(p) \/ RUnlock(p)
        \/ \E k \in Keys, v \in Values : StoreKeys(p, k, v)
        \/ \E k \in Keys, v \in Values : LoadOrStoreKeys(p, k, v)
        \/ \E k \in Keys : DeleteKeys(p, k)
        \/ \E k \in Keys : LoadAndDeleteKeys(p, k)
        \/ \E k \in Keys : LoadBody(p, k)
        \/ LenBody(p) \/ KeysBody(p)
        \/ \E stop \in Keys \cup {NoKey} : RangeBegin(p, stop)
        \/ Continue(p)

Spec == Init /\ [][Next]_vars

\* -------------------------------------------------------------- scenarios
\* The maps a run of Store calls can have built over the keys S.
MapsOver(S) == UNION {[T -> Values] : T \in SUBSET S}

\* The container after Store calls of the entries of d on a new map, in
\* ascending key order: it holds exactly d, unlocked, nobody calling.
Holding(d) ==
    /\ keys = SortedSeq(DOMAIN d)
    /\ data = d
    /\ keySet = [k \in DOMAIN d |-> TRUE]
    /\ writer = NoProc
    /\ readers = {}
    /\ pc = [p \in Procs |-> "idle"]
    /\ ret = [p \in Procs |-> NoResult]
    /\ rng = [p \in Procs |-> <<>>]
    /\ pos = [p \in Procs |-> 0]
    /\ abs = d
    /\ exp = [p \in Procs |-> NoResult]
    /\ \E w \in IntSizes : mem = StoredMem(SortedSeq(DOMAIN d), w)

\* A caller that keeps the result of its call.
UnlockKeep(p) == UnlockTo(p, "done") /\ UNCHANGED <<call, ret, exp>>

RUnlockKeep(p) == RUnlockTo(p, "done") /\ UNCHANGED <<call, ret, exp>>

\* A caller makes the mutating call it has planned.
PlannedLock(p) == call[p].op \in WriteOps /\ Lock(p)

\* A caller makes the Load it has planned.
PlannedRLock(p) == call[p].op = "Load" /\ RLock(p)

\* Once every planned call has returned, one caller goes on to Load the key.
LoadAfter(p) ==
    /\ \A q \in Procs : pc[q] = "done" /\ call[q].op = plan.op
    /\ pc' = [pc EXCEPT ![p] = "idle"]
    /\ call' = [call EXCEPT ![p] = Call("Load", plan.key, Nil)]
    /\ ret' = [ret EXCEPT ![p] = NoResult]
    /\ exp' = [exp EXCEPT ![p] = NoResult]
    /\ UNCHANGED <<keys, data, keySet, writer, readers, rng, pos, abs, plan, mem>>

\* Every goroutine calls LoadOrStore(k, v_p) on one absent key k, with
\* pairwise distinct values v_p; afterwards one of them calls Load(k).
InitLOS ==
    \E k \in Keys, d \in MapsOver(Keys), vs \in [Procs -> Values] :
        /\ k \notin DOMAIN d
        /\ \A p, q \in Procs : p # q => vs[p] # vs[q]
        /\ Holding(d)
        /\ call = [p \in Procs |-> Call("LoadOrStore", k, vs[p])]
        /\ plan = Call("LoadOrStore", k, Nil)

NextLOS ==
    \E p \in Procs :
        \/ PlannedLock(p) \/ LockAcquire(p) \/ UnlockKeep(p)
        \/ LoadOrStoreKeys(p, call[p].key, call[p].val)
        \/ LoadOrStoreKeySet(p) \/ LoadOrStoreData(p)
        \/ LoadAfter(p) \/ PlannedRLock(p)
        \/ LoadBody(p, call[p].key) \/ RUnlockKeep(p)

SpecLOS == InitLOS /\ [][NextLOS]_vars

\* Every goroutine calls LoadAndDelete(k) on one live key k (plan.val is the
\* value stored under k); afterwards one of them calls Load(k).
InitLAD ==
    \E k \in Keys, d \in MapsOver(Keys) :
        /\ k \in DOMAIN d
        /\ Holding(d)
        /\ call = [p \in Procs |-> Call("LoadAndDelete", k, Nil)]
        /\ plan = Call("LoadAndDelete", k, d[k])

NextLAD ==
    \E p \in Procs :
        \/ PlannedLock(p) \/ LockAcquire(p) \/ UnlockKeep(p)
        \/ LoadAndDeleteKeys(p, call[p].key)
        \/ LoadAndDeleteKeySet(p) \/ LoadAndDeleteData(p)
        \/ LoadAfter(p) \/ PlannedRLock(p)
        \/ LoadBody(p, call[p].key) \/ RUnlockKeep(p)

SpecLAD == InitLAD /\ [][NextLAD]_vars

\* Goroutine 1 calls Store(k, v) and then Load(k), whatever k held before;
\* the other goroutines call any method with any key but k.
Storer == CHOOSE p \in Procs : \A q \in Procs : p <= q

InitRT ==
    \E k \in Keys, v \in Values, d \in MapsOver(Keys) :
        /\ DOMAIN d \subseteq {k}
        /\ Holding(d)
        /\ call = [p \in Procs |-> IF p = Storer THEN Call("Store", k, v) ELSE NoCall]
        /\ plan = Call("Store", k, v)

\* The storer's Store has returned: it goes on to Load the key.
LoadNext(p) ==
    /\ p = Storer
    /\ pc[p] = "done" /\ call[p].op = "Store"
    /\ pc' = [pc EXCEPT ![p] = "idle"]
    /\ call' = [call EXCEPT ![p] = Call("Load", plan.key, Nil)]
    /\ ret' = [ret EXCEPT ![p] = NoResult]
    /\ exp' = [exp EXCEPT ![p] = NoResult]
    /\ UNCHANGED <<keys, data, keySet, writer, readers, rng, pos, abs, plan, mem>>

NextRT ==
    \/ PlannedLock(Storer) \/ UnlockKeep(Storer)
    \/ StoreKeys(Storer, plan.key, plan.val)
    \/ LoadNext(Storer) \/ PlannedRLock(Storer)
    \/ LoadBody(Storer, plan.key)
    \/ RUnlockKeep(Storer)
    \/ \E p \in Procs :
        \/ LockAcquire(p)
        \/ Continue(p)
    \/ \E p \in Procs \ {Storer} :
        \/ Lock(p) \/ Unlock(p)
        \/ RLock(p) \/ RUnlock(p)
        \/ \E k \in Keys \ {plan.key}, v \in Values : StoreKeys(p, k, v)
        \/ \E k \in Keys \ {plan.key}, v \in Values : LoadOrStoreKeys(p, k, v)
        \/ \E k \in Keys \ {plan.key} : DeleteKeys(p, k)
        \/ \E k \in Keys \ {plan.key} : LoadAndDeleteKeys(p, k)
        \/ \E k \in Keys \ {plan.key} : LoadBody(p, k)
        \/ LenBody(p) \/ KeysBody(p)
        \/ \E stop \in Keys \cup {NoKey} : RangeBegin(p, stop)

SpecRT == InitRT /\ [][NextRT]_vars

\* ---------------------------------------------------- keys that are no int
\* Mutant of WriterKeyPanic: Unlock is not deferred, the panic leaves the
\* method with the lock still held.
WriterKeyPanicLockLeft(p) ==
    /\ pc[p] = "wheld"
    /\ pc' = [pc EXCEPT ![p] = "idle"]
    /\ UNCHANGED <<keys, data, keySet, writer, readers, call, ret, rng, pos, abs, exp, plan, mem>>

\* Store, Delete, LoadOrStore, LoadAndDelete, lines 31, 62, 95, 119: with a
\* key that is not an int, k := key.(int) panics.  The assertion is the
\* first statement after Lock and defer Unlock (lines 28-29, 59-60, 92-93,
\* 116-117), so the panic unwinds through the deferred Unlock.
WriterKeyPanic(p) ==
    /\ pc[p] = "wheld"
    /\ call' = [call EXCEPT ![p] = Call("panic", NoKey, Nil)]
    /\ pc' = [pc EXCEPT ![p] = "unlock"]
    /\ UNCHANGED <<keys, data, keySet, writer, readers, ret, rng, pos, abs, exp, plan, mem>>

\* Load, line 52: the same assertion after RLock and defer RUnlock (49-50).
LoadKeyPanic(p) ==
    /\ pc[p] = "rheld"
    /\ call' = [call EXCEPT ![p] = Call("panic", NoKey, Nil)]
    /\ pc' = [pc EXCEPT ![p] = "runlock"]
    /\ UNCHANGED <<keys, data, keySet, writer, readers, ret, rng, pos, abs, exp, plan, mem>>

\* The methods called with keys of any type; a goroutine whose call panicked
\* has run the deferred unlock and (its caller recovering) may call again.
NextBad ==
    \/ Next
    \/ \E p \in Procs :
        \/ WriterKeyPanic(p)
        \/ LoadKeyPanic(p)

SpecBad == Init /\ [][NextBad]_vars

\* ------------------------------------------------------- fair scheduling
\* p calls a mutating method and stands in m.mu.Lock() (lines 28, 59, 92,
\* 116) until the writer mutex is free.
InvokeWrite(p) ==
    /\ pc[p] = "idle"
    /\ call[p] = NoCall
    /\ call' = [call EXCEPT ![p] = Call("lock", NoKey, Nil)]
    /\ UNCHANGED <<keys, data, keySet, writer, readers, pc, ret, rng, pos, abs, exp, plan, mem>>

LockInvoked(p) ==
    /\ call[p].op = "lock"
    /\ Lock(p)

\* The steps of p that wait for nobody's call: the second half of Lock, the
\* method bodies and the deferred unlocks.
LiveSteps(p) ==
    \/ LockAcquire(p) \/ Unlock(p) \/ RUnlock(p)
    \/ \E k \in Keys, v \in Values : StoreKeys(p, k, v)
    \/ \E k \in Keys, v \in Values : LoadOrStoreKeys(p, k, v)
    \/ \E k \in Keys : DeleteKeys(p, k)
    \/ \E k \in Keys : LoadAndDeleteKeys(p, k)
    \/ \E k \in Keys : LoadBody(p, k)
    \/ LenBody(p) \/ KeysBody(p)
    \/ \E stop \in Keys \cup {NoKey} : RangeBegin(p, stop)
    \/ Continue(p)

\* p, inside no method, calls a read-only method: m.mu.RLock() (lines 49, 78,
\* 137, 144).  A goroutine standing in the Lock of a mutating method makes
\* no other call.
InvokeRead(p) ==
    /\ call[p] = NoCall
    /\ RLock(p)

NextLive ==
    \E p \in Procs :
        \/ InvokeWrite(p)
        \/ LockInvoked(p)
        \/ InvokeRead(p)
        \/ LiveSteps(p)

\* Every goroutine inside a method keeps running (weak fairness of its
\* steps); sync.Mutex hands the writer mutex to a goroutine that keeps
\* waiting for it (strong fairness of taking it).  Each of these steps
\* changes pc or pos.
SpecLive ==
    /\ Init
    /\ [][NextLive]_vars
    /\ \A p \in Procs : WF_<<pc, pos>>(LiveSteps(p)) /\ SF_pc(LockInvoked(p))

\* ------------------------------------------------- one caller, with memory
\* m.keys becomes the slice r.slice over the arrays r.heap.
KeysBecome(r) ==
    /\ mem' = [mem EXCEPT !.heap = Collect(r.heap, {r.slice.arr, mem.out.arr}),
                          !.keys = r.slice]
    /\ keys' = Elements(r.heap, r.slice)

\* Store, lines 27-45, from Lock to the deferred Unlock.
MemStore(k, v) ==
    /\ IF ~KeySetHas(keySet, k)
       THEN /\ KeysBecome(SliceInsert(mem.heap, mem.keys, SearchInts(keys, k), k, mem.int))
            /\ keySet' = MapSet(keySet, k, TRUE)
       ELSE UNCHANGED <<keys, keySet, mem>>
    /\ data' = MapSet(data, k, v)
    /\ UNCHANGED <<writer, readers, pc, call, ret, rng, pos, abs, exp, plan>>

\* Delete, lines 58-73.
MemDelete(k) ==
    /\ IF KeySetHas(keySet, k)
       THEN /\ LET at == SearchInts(keys, k)
               IN  IF at < Len(keys) /\ keys[at + 1] = k
                   THEN KeysBecome(SliceRemove(mem.heap, mem.keys, at))
                   ELSE UNCHANGED <<keys, mem>>
            /\ keySet' = MapDelete(keySet, k)
            /\ data' = MapDelete(data, k)
       ELSE UNCHANGED <<keys, data, keySet, mem>>
    /\ UNCHANGED <<writer, readers, pc, call, ret, rng, pos, abs, exp, plan>>

\* LoadOrStore, lines 91-112.
MemLoadOrStore(k, v) ==
    /\ IF k \in DOMAIN data
       THEN UNCHANGED <<keys, data, keySet, mem>>
       ELSE /\ KeysBecome(SliceInsert(mem.heap, mem.keys, SearchInts(keys, k), k, mem.int))
            /\ keySet' = MapSet(keySet, k, TRUE)
            /\ data' = MapSet(data, k, v)
    /\ UNCHANGED <<writer, readers, pc, call, ret, rng, pos, abs, exp, plan>>

\* LoadAndDelete, lines 115-133.
MemLoadAndDelete(k) ==
    /\ IF k \in DOMAIN data
       THEN /\ LET at == SearchInts(keys, k)
               IN  IF at < Len(keys) /\ keys[at + 1] = k
                   THEN KeysBecome(SliceRemove(mem.heap, mem.keys, at))
                   ELSE UNCHANGED <<keys, mem>>
            /\ keySet' = MapDelete(keySet, k)
            /\ data' = MapDelete(data, k)
       ELSE UNCHANGED <<keys, data, keySet, mem>>
    /\ UNCHANGED <<writer, readers, pc, call, ret, rng, pos, abs, exp, plan>>

\* Keys, lines 143-150.  The caller keeps the slice it is handed and lets go
\* of the one an earlier call handed it.
MemKeys ==
    /\ LET r == SliceCopy(Collect(mem.heap, {mem.keys.arr}), mem.keys)
       IN  mem' = [mem EXCEPT !.heap = r.heap,
                              !.out = r.slice,
                              !.snap = Elements(r.heap, r.slice)]
    /\ UNCHANGED <<keys, data, keySet, writer, readers, pc, call, ret, rng, pos, abs, exp, plan>>

NextMem ==
    \/ \E k \in Keys, v \in Values : MemStore(k, v)
    \/ \E k \in Keys : MemDelete(k)
    \/ \E k \in Keys, v \in Values : MemLoadOrStore(k, v)
    \/ \E k \in Keys : MemLoadAndDelete(k)
    \/ MemKeys

SpecMem == Init /\ [][NextMem]_vars

\* ------------------------------------------- callbacks that call the map
\* Range, lines 82-83: the loop of p is about to call f(k, v).
VisitPending(p) ==
    /\ pc[p] = "loop"
    /\ pos[p] < Len(rng[p])
    /\ rng[p][pos[p] + 1] \in DOMAIN data

\* f calls Store, Delete, LoadOrStore or LoadAndDelete of the same map: p,
\* still holding the read lock of Range, enters m.mu.Lock() (lines 28, 59,
\* 92, 116) and waits for the writer mutex.
NestedWrite(p) ==
    /\ VisitPending(p)
    /\ pc' = [pc EXCEPT ![p] = "ncall"]
    /\ UNCHANGED <<keys, data, keySet, writer, readers, call, ret, rng, pos, abs, exp, plan, mem>>

\* m.mu.Lock() of the nested call, first half; its second half is
\* LockAcquire.
NestedLock(p) ==
    /\ pc[p] = "ncall"
    /\ writer = NoProc
    /\ writer' = p
    /\ pc' = [pc EXCEPT ![p] = "wlock"]
    /\ UNCHANGED <<keys, data, keySet, readers, call, ret, rng, pos, abs, exp, plan, mem>>

\* f calls Load, Len, Keys or Range of the same map: m.mu.RLock() (lines 49,
\* 78, 137, 144) is granted when no writer has announced itself and blocks
\* behind an announced writer, as every RLock does.
NestedRead(p) ==
    /\ VisitPending(p)
    /\ pc' = [pc EXCEPT ![p] = IF writer = NoProc THEN "nread" ELSE "rblock"]
    /\ UNCHANGED <<keys, data, keySet, writer, readers, call, ret, rng, pos, abs, exp, plan, mem>>

\* The nested read-only call runs, releases its read lock and returns into
\* f; the read lock of the enclosing Range stays held.
NestedReadReturn(p) ==
    /\ pc[p] = "nread"
    /\ pc' = [pc EXCEPT ![p] = "loop"]
    /\ UNCHANGED <<keys, data, keySet, writer, readers, call, ret, rng, pos, abs, exp, plan, mem>>

NextNest ==
    \/ Next
    \/ \E p \in Procs :
        \/ NestedWrite(p) \/ NestedLock(p)
        \/ NestedRead(p) \/ NestedReadReturn(p)

SpecNest == Init /\ [][NextNest]_vars

\* ------------------------------------------------------------ vocabulary
\* p is inside the critical section of a mutating method.
InWriteCS(p) == pc[p] \in {"wheld", "keyset", "data", "unlock"}

\* p is inside the critical section of a read-only method: between RLock and
\* the deferred RUnlock, the calls the callback of its Range makes to the
\* map (in a nested read-only method, or waiting in the Lock or RLock of a
\* nested method with the read lock of Range held) included.
InReadCS(p) ==
    \/ pc[p] \in {"rheld", "loop", "runlock", "nread"}
    \/ p \in readers /\ pc[p] \in {"ncall", "wlock", "rblock"}

NoWriterHolds == \A p \in Procs : ~InWriteCS(p)

\* p's method has computed its result and is about to release the lock.
Returning(p, o) == pc[p] \in {"unlock", "runlock"} /\ call[p].op = o

StrictlyAscending(a) == \A i, j \in 1..Len(a) : i < j => a[i] < a[j]

Elems(a) == {a[i] : i \in 1..Len(a)}

\* ------------------------------------------------------------------ C1
AllDone(o) == \A p \in Procs : pc[p] = "done" /\ call[p].op = o

\* C1: when the concurrent LoadOrStore(k, v_p) calls on the absent key k have
\* all returned, exactly one has loaded = false and returned its own value,
\* every other has loaded = true and that same value; the Load(k) made
\* afterwards returns that value with found = true.
C1_LoadOrStoreOnce ==
    /\ AllDone("LoadOrStore") =>
          \E w \in Procs :
              /\ ret[w] = Found(call[w].val, FALSE)
              /\ \A p \in Procs \ {w} : ret[p] = Found(call[w].val, TRUE)
    /\ \A p \in Procs :
          pc[p] = "done" /\ call[p].op = "Load" =>
              \A q \in Procs \ {p} : ret[p] = Found(ret[q].value, TRUE)

C1_Witness ==
    \E p \in Procs :
        /\ pc[p] = "done" /\ call[p].op = "Load"
        /\ \A q \in Procs \ {p} : pc[q] = "done" /\ ret[q] = Found(MaxVal, TRUE)

\* ------------------------------------------------------------------ C2
\* C2: when the concurrent LoadAndDelete(k) calls on the live key k have all
\* returned, exactly one has returned (the value stored, true) and every
\* other (nil, false); the Load(k) made afterwards reports found = false.
C2_LoadAndDeleteOnce ==
    /\ AllDone("LoadAndDelete") =>
          \E w \in Procs :
              /\ ret[w] = Found(plan.val, TRUE)
              /\ \A p \in Procs \ {w} : ret[p] = Found(Nil, FALSE)
    /\ \A p \in Procs :
          pc[p] = "done" /\ call[p].op = "Load" => ret[p] = Found(Nil, FALSE)

C2_Witness ==
    \E p \in Procs :
        /\ pc[p] = "done" /\ call[p].op = "Load"
        /\ plan.val = MaxVal
        /\ \E q \in Procs \ {p} : ret[q] = Found(MaxVal, TRUE)

\* ------------------------------------------------------------------ C9
\* C9: Store(k, v) followed by Load(k) by the same caller, with no call on k
\* by any other caller, returns (v, true), whatever k held before and also
\* for v = nil.
C9_StoreThenLoad ==
    (pc[Storer] \in {"runlock", "done"} /\ call[Storer].op = "Load")
        => ret[Storer] = Found(plan.val, TRUE)

C9_Witness ==
    /\ pc[Storer] = "done" /\ call[Storer].op = "Load"
    /\ plan.val = Nil
    /\ ret[Storer] = Found(Nil, TRUE)
    /\ Len(keys) = MaxKey

\* ------------------------------------------------------------------ C3
\* C3: whenever no writer holds the lock, the key slice is strictly ascending
\* (so without duplicates) and is the sorted sequence of its own key set, and
\* every Keys() result is such a sequence: it depends on the set of keys
\* only, not on the order of insertion.
C3_KeysAscending ==
    /\ NoWriterHolds =>
          /\ StrictlyAscending(keys)
          /\ keys = SortedSeq(Elems(keys))
    /\ \A p \in Procs : Returning(p, "Keys") =>
          /\ StrictlyAscending(ret[p].keys)
          /\ ret[p].keys = SortedSeq(DOMAIN data)

C3_Witness ==
    /\ NoWriterHolds
    /\ Len(keys) >= 2
    /\ \E p \in Procs : Returning(p, "Keys") /\ Len(ret[p].keys) >= 2

\* ------------------------------------------------------------------ C4
\* C4: whenever no writer holds the lock, keys, data and keySet hold the same
\* key set; Len() equals the length of Keys(), and the methods that test
\* keySet agree with those that test data.
C4_StructuresAgree ==
    /\ NoWriterHolds =>
          /\ Elems(keys) = DOMAIN data
          /\ DOMAIN data = {k \in Keys : KeySetHas(keySet, k)}
          /\ DOMAIN keySet = DOMAIN data
          /\ Len(keys) = Cardinality(DOMAIN data)
    /\ \A p, q \in Procs :
          Returning(p, "Len") /\ Returning(q, "Keys") => ret[p].n = Len(ret[q].keys)
    /\ \A p \in Procs : Returning(p, "Len") => ret[p].n = Len(keys)

C4_Witness ==
    \E p, q \in Procs :
        /\ Returning(p, "Len") /\ Returning(q, "Keys")
        /\ ret[p].n = MaxKey

\* ------------------------------------------------------------------ C5
\* C5: linearizability.  The atomic map abs performs each call once, at a
\* point inside the call's critical section (so in lock order, and between
\* the call and its return); every result the code returns is the result
\* abs gave, and outside a writer's update the code's structures hold
\* exactly abs.
C5_Linearizable ==
    /\ \A p \in Procs : pc[p] \in {"unlock", "runlock"} => ret[p] = exp[p]
    /\ (\A p \in Procs : pc[p] \notin {"keyset", "data"}) =>
          /\ data = abs
          /\ keys = SortedSeq(DOMAIN abs)

C5_Witness ==
    \E p, q \in Procs :
        /\ p # q
        /\ Returning(p, "Range") /\ Len(ret[p].visits) = MaxKey
        /\ Returning(q, "Load") /\ ret[q].ok

\* ------------------------------------------------------------------ C6
\* C6: while a mutating method is in its critical section, no other method
\* of any kind is in its critical section.  (Readers may overlap: C6_Witness.)
C6_LockDiscipline ==
    \A p, q \in Procs :
        p # q /\ InWriteCS(p) => ~InWriteCS(q) /\ ~InReadCS(q)

C6_Witness ==
    \E p, q \in Procs :
        /\ p # q
        /\ InReadCS(p) /\ InReadCS(q)
        /\ call[p].op = "Range" /\ call[q].op \in {"Load", "Len", "Keys"}

\* ------------------------------------------------------------------ C7
\* The entries a Range with callback `stop` must visit, from the structures
\* as they are while it holds the read lock: the live entries in ascending
\* key order, up to and including the first one the callback refuses.
MustVisit(stop) ==
    LET live == DOMAIN data
        upto == IF stop \in live THEN {k \in live : k <= stop} ELSE live
        ks == SortedSeq(upto)
    IN  [i \in 1..Len(ks) |-> <<ks[i], data[ks[i]]>>]

\* C7: a finished Range has visited exactly the live entries, in strictly
\* ascending key order, each once with its current value, up to and including
\* the first for which visit returned false; an unfinished one has visited a
\* prefix of them, and none after a false.
C7_RangeVisits ==
    \A p \in Procs :
        /\ Returning(p, "Range") => ret[p].visits = MustVisit(call[p].key)
        /\ pc[p] = "loop" =>
              /\ Len(ret[p].visits) <= Len(MustVisit(call[p].key))
              /\ ret[p].visits = SubSeq(MustVisit(call[p].key), 1, Len(ret[p].visits))
              /\ \A i \in 1..Len(ret[p].visits) : VisitReturns(call[p].key, ret[p].visits[i][1])

C7_Witness ==
    \E p \in Procs :
        /\ Returning(p, "Range")
        /\ call[p].key = 1
        /\ Cardinality(DOMAIN data) = MaxKey
        /\ ret[p].visits = <<(<<1, data[1]>>)>>

\* ------------------------------------------------------------------ C8
\* C8: from the moment a Range has evaluated its loop until it returns, no
\* step changes keys, data or keySet: a writer that arrived meanwhile mutates
\* only after that Range has released the lock.
C8_RangeSnapshot ==
    [][(\E p \in Procs : pc[p] \in {"loop", "runlock"} /\ call[p].op = "Range")
          => (keys' = keys /\ data' = data /\ keySet' = keySet)]_vars

C8_Witness ==
    \E p \in Procs :
        /\ pc[p] = "loop"
        /\ Len(ret[p].visits) >= 1
        /\ writer # NoProc
        /\ pc[writer] = "wlock"

\* ------------------------------------------------------------------ C10
\* C10: Store(k, v) changes only k's entry.  Its index step leaves data alone
\* and, for an absent k, grows keys by exactly k at its sorted position (the
\* other keys keep their order), for a live k leaves keys alone; its keySet
\* step leaves keys and data alone; its data step leaves keys alone, sets k's
\* value to v and leaves every other value alone, and Len() grows by one
\* exactly when k was absent.
C10_StoreFrame ==
    [][\A p \in Procs :
          LET k == call'[p].key
              v == call'[p].val
          IN  /\ (pc[p] = "wheld" /\ pc'[p] # "wheld" /\ call'[p].op = "Store") =>
                    /\ data' = data
                    /\ IF k \in DOMAIN data
                       THEN keys' = keys
                       ELSE /\ Len(keys') = Len(keys) + 1
                            /\ StrictlyAscending(keys')
                            /\ SelectSeq(keys', LAMBDA x : x # k) = keys
                            /\ Elems(keys') = Elems(keys) \cup {k}
              /\ (pc[p] = "keyset" /\ pc'[p] # "keyset" /\ call[p].op = "Store") =>
                    /\ data' = data
                    /\ keys' = keys
              /\ (pc[p] = "data" /\ pc'[p] # "data" /\ call[p].op = "Store") =>
                    /\ keys' = keys
                    /\ DOMAIN data' = DOMAIN data \cup {k}
                    /\ data'[k] = v
                    /\ \A j \in DOMAIN data \ {k} : data'[j] = data[j]
                    /\ Cardinality(DOMAIN data') =
                          Cardinality(DOMAIN data) + (IF k \in DOMAIN data THEN 0 ELSE 1)
                    /\ Cardinality(DOMAIN data') = Len(keys')
      ]_vars

C10_Witness ==
    \E p \in Procs :
        /\ Returning(p, "Store")
        /\ call[p].key = 1
        /\ keys = <<1, 2>>
        /\ data[1] # data[2]

\* ------------------------------------------------------------------ C11
\* Whoever is inside a read-only method sees one key set in keys, data and
\* keySet.
ReadersSeeOneKeySet ==
    (\E q \in Procs : InReadCS(q)) =>
        /\ Elems(keys) = DOMAIN data
        /\ DOMAIN keySet = DOMAIN data

\* C11: Delete(k) on a live k.  Its index step removes exactly k from keys
\* (the other keys keep their order) and leaves data alone; its keySet step
\* leaves keys and data alone; its data step removes exactly k's entry, so
\* that afterwards k is in neither structure, Len() is one less and every
\* other value is as before.  No reader is inside its critical section in
\* any state where the structures differ.
C11_DeleteLive ==
    [][/\ \A p \in Procs :
            LET k == call'[p].key
            IN  /\ (pc[p] = "wheld" /\ call'[p].op = "Delete" /\ k \in DOMAIN data) =>
                      /\ pc'[p] = "keyset"
                      /\ data' = data
                      /\ Len(keys') = Len(keys) - 1
                      /\ keys' = SelectSeq(keys, LAMBDA x : x # k)
                /\ (pc[p] = "keyset" /\ pc'[p] # "keyset" /\ call[p].op = "Delete") =>
                      /\ data' = data
                      /\ keys' = keys
                /\ (pc[p] = "data" /\ pc'[p] # "data" /\ call[p].op = "Delete") =>
                      /\ pc'[p] = "unlock"
                      /\ keys' = keys
                      /\ k \notin Elems(keys')
                      /\ DOMAIN data' = DOMAIN data \ {k}
                      /\ \A j \in DOMAIN data' : data'[j] = data[j]
                      /\ Cardinality(DOMAIN data') = Cardinality(DOMAIN data) - 1
                      /\ Len(keys') = Cardinality(DOMAIN data')
       /\ ReadersSeeOneKeySet'
      ]_vars

C11_Witness ==
    \E p, q \in Procs :
        /\ pc[p] = "data" /\ call[p].op = "Delete"
        /\ call[p].key = 1
        /\ keys = <<2>>
        /\ pc[q] = "rblock"

\* ------------------------------------------------------------------ C12
\* C12: an absent key is not an error and changes nothing.  Load(k) and
\* LoadAndDelete(k) of an absent k return (nil, false), Delete(k) of an absent
\* k goes straight to its return, and keys, data and keySet (hence Len()) are
\* as before.  A Delete(k) that returns leaves k in none of the three, so a
\* second Delete(k) is the absent case and changes nothing.
C12_AbsentKey ==
    [][\A p \in Procs :
          LET k == call'[p].key
          IN  /\ (pc[p] = "wheld" /\ call'[p].op = "Delete" /\ k \notin DOMAIN data) =>
                    /\ pc'[p] = "unlock"
                    /\ UNCHANGED <<keys, data, keySet>>
              /\ (pc[p] = "wheld" /\ call'[p].op = "LoadAndDelete" /\ k \notin DOMAIN data) =>
                    /\ pc'[p] = "unlock"
                    /\ ret'[p] = Found(Nil, FALSE)
                    /\ UNCHANGED <<keys, data, keySet>>
              /\ (pc[p] = "rheld" /\ call'[p].op = "Load" /\ k \notin DOMAIN data) =>
                    /\ pc'[p] = "runlock"
                    /\ ret'[p] = Found(Nil, FALSE)
                    /\ UNCHANGED <<keys, data, keySet>>
              /\ (pc'[p] = "unlock" /\ call'[p].op = "Delete") =>
                    /\ k \notin DOMAIN data'
                    /\ k \notin Elems(keys')
                    /\ ~KeySetHas(keySet', k)
      ]_vars

C12_Witness ==
    \E p \in Procs :
        /\ Returning(p, "LoadAndDelete")
        /\ call[p].key = 1
        /\ ret[p] = Found(Nil, FALSE)
        /\ keys = <<2>>
        /\ Cardinality(DOMAIN data) = 1

\* ------------------------------------------------------------------ C13
\* C13: LoadOrStore(k, v) on a live k returns (data[k], true) and leaves
\* keys, data and keySet as they are.  On an absent k it returns (v, false)
\* and leaves k mapped to v, and a Load(k) of a mapped k returns what is
\* mapped, so the next Load(k) returns (v, true).
C13_LoadOrStore ==
    [][\A p \in Procs :
          LET k == call'[p].key
              v == call'[p].val
          IN  /\ (pc[p] = "wheld" /\ call'[p].op = "LoadOrStore" /\ k \in DOMAIN data) =>
                    /\ pc'[p] = "unlock"
                    /\ ret'[p] = Found(data[k], TRUE)
                    /\ UNCHANGED <<keys, data, keySet>>
              /\ (pc[p] = "wheld" /\ call'[p].op = "LoadOrStore" /\ k \notin DOMAIN data) =>
                    /\ pc'[p] = "keyset"
                    /\ UNCHANGED data
              /\ (pc[p] = "data" /\ pc'[p] # "data" /\ call[p].op = "LoadOrStore") =>
                    /\ pc'[p] = "unlock"
                    /\ k \notin DOMAIN data
                    /\ ret'[p] = Found(v, FALSE)
                    /\ k \in DOMAIN data'
                    /\ data'[k] = v
                    /\ \A j \in DOMAIN data : data'[j] = data[j]
              /\ (pc[p] = "rheld" /\ call'[p].op = "Load" /\ k \in DOMAIN data) =>
                    /\ ret'[p] = Found(data[k], TRUE)
                    /\ UNCHANGED data
      ]_vars

C13_Witness ==
    \E p \in Procs :
        /\ Returning(p, "LoadOrStore")
        /\ call[p].val = Nil
        /\ ret[p] = Found(MaxVal, TRUE)
        /\ call[p].key \in DOMAIN data
        /\ data[call[p].key] = MaxVal

\* ------------------------------------------------------------------ C14
\* The lock is held only by a goroutine that is inside a method.
LockHeldInsideCall ==
    \A p \in Procs :
        /\ writer = p => pc[p] \in {"wlock", "wheld", "keyset", "data", "unlock"}
        /\ p \in readers => InReadCS(p)

\* C14: a call whose key is not an int is rejected before any mutation: the
\* step that rejects it leaves keys, data and keySet as they are and leads
\* to the release of the lock, after which the goroutine holds the lock in
\* neither mode; the lock is never left held by a goroutine that is outside
\* every method, so the calls of the others still get it.
C14_KeyPanic ==
    [][/\ \A p \in Procs :
            /\ (call[p].op # "panic" /\ call'[p].op = "panic") =>
                  /\ UNCHANGED <<keys, data, keySet>>
                  /\ pc'[p] = IF writer = p THEN "unlock" ELSE "runlock"
            /\ (call[p].op = "panic" /\ call'[p].op # "panic") =>
                  /\ UNCHANGED <<keys, data, keySet>>
                  /\ pc'[p] = "idle"
                  /\ writer' # p
                  /\ p \notin readers'
       /\ LockHeldInsideCall'
      ]_vars

C14_Witness ==
    \E p, q \in Procs :
        /\ pc[p] = "unlock"
        /\ call[p].op = "panic"
        /\ pc[q] = "rblock"
        /\ Len(keys) = MaxKey

\* ------------------------------------------------------------------ C15
\* p has called a method that has not returned.
InCall(p) == pc[p] # "idle" \/ call[p].op = "lock"

\* C15: under fair scheduling every method that was called returns, however
\* the calls of the goroutines interleave (the visit functions of Range
\* return and call no method of the container).
C15_EveryCallReturns == \A p \in Procs : InCall(p) ~> ~InCall(p)

C15_Witness ==
    \E p, q \in Procs :
        /\ call[p].op = "lock" /\ pc[p] = "idle"
        /\ pc[q] = "data" /\ call[q].op = "Store"
        /\ Len(keys) = MaxKey

\* ------------------------------------------------------------------ C16
\* C16: the slice Keys() returned keeps the length and the elements it had
\* when it was returned, whatever Store, Delete, LoadOrStore and
\* LoadAndDelete calls come later, the shift Delete makes inside the backing
\* array of m.keys included.
C16_KeysIsCopy ==
    mem.out.arr # NoArr =>
        /\ mem.out.len = Len(mem.snap)
        /\ Elements(mem.heap, mem.out) = mem.snap

\* A slice of MaxKey keys was returned, and a later removal has moved other
\* elements into the slots of m.keys' array that the slice's elements had.
C16_Witness ==
    /\ mem.out.arr # NoArr
    /\ mem.out.len = MaxKey
    /\ Len(keys) < MaxKey
    /\ Cap(mem.heap, mem.keys) >= MaxKey
    /\ \E i \in 1..MaxKey : mem.heap[mem.keys.arr][i] # mem.snap[i]

\* ------------------------------------------------------------------ C17
\* p's call takes the step that removes the live entry of its key from data
\* or replaces that entry's value.
RemovesOrReplaces(p) ==
    /\ pc[p] = "data"
    /\ pc'[p] = "unlock"
    /\ call[p].op \in {"Store", "Delete", "LoadAndDelete"}
    /\ call[p].key \in DOMAIN data

\* C17 as claimed: whenever a call removes a live entry or replaces a live
\* entry's value, the caller receives the removed or replaced value in the
\* call's result.
C17_CallerReceivesOldValue ==
    [][\A p \in Procs :
          RemovesOrReplaces(p) => ret'[p] = Found(data[call[p].key], TRUE)]_vars

\* C17, amended: of the calls that remove a live entry or replace its value,
\* LoadAndDelete returns the removed value (with true); Store, replacing,
\* and Delete, removing, return nothing to the caller.
C17_OnlyLoadAndDeleteReturnsIt ==
    [][\A p \in Procs :
          RemovesOrReplaces(p) =>
              ret'[p] = IF call[p].op = "LoadAndDelete"
                        THEN Found(data[call[p].key], TRUE)
                        ELSE NoResult]_vars

C17_Witness ==
    \E p \in Procs :
        /\ Returning(p, "LoadAndDelete")
        /\ ret[p] = Found(MaxVal, TRUE)
        /\ call[p].key \notin DOMAIN data
        /\ Len(keys) = MaxKey - 1

\* ------------------------------------------------------------------ C18
\* The callback of p's Range is inside a mutating method of the same map.
NestedWriting(p) == p \in readers /\ pc[p] \in {"ncall", "wlock"}

\* C18: a Range whose callback calls a mutating method of the same map
\* deadlocks.  From the nested call on, the goroutine stays where it is, in
\* the nested Lock with the read lock of Range still held, so that neither
\* call returns, and keys, data and keySet are never changed again.
C18_NestedWriteDeadlocks ==
    [][\A p \in Procs :
          NestedWriting(p) =>
              /\ NestedWriting(p)'
              /\ UNCHANGED <<keys, data, keySet>>]_vars

C18_Witness ==
    \E p, q \in Procs :
        /\ NestedWriting(p)
        /\ writer = p
        /\ pc[q] = "rblock"
        /\ Len(keys) = MaxKey

\* ------------------------------------------------------------------ C19
\* The callback of p's Range is inside a read-only method of the same map
\* and waits there for the read lock.
NestedReadBlocked(p) == p \in readers /\ pc[p] = "rblock"

\* C19 as claimed: a read-only method called from the callback of a Range
\* is granted its read lock even when a writer is waiting for the lock the
\* Range holds, so the callback never waits for the lock and the Range
\* completes.
C19_NestedReadGranted == \A p \in Procs : ~NestedReadBlocked(p)

\* ------------------------------------------------------------------ C20
\* sort.SearchInts(m.keys, k) gives the index of k in m.keys.
SearchFinds(k) ==
    LET at == SearchInts(keys, k)
    IN  at < Len(keys) /\ keys[at + 1] = k

\* C20: whenever Delete or LoadAndDelete, the write lock held, finds its key
\* live (in keySet for Delete, in data for LoadAndDelete), the position p the
\* binary search gives has p < len(keys) and keys[p] = k, so the guarded
\* removal from keys is made whenever the removal from keySet and data is:
\* no call is about to remove its key from them while keys still holds it.
C20_SearchFindsLive ==
    \A p \in Procs :
        /\ pc[p] = "wheld" =>
              \A k \in Keys : (KeySetHas(keySet, k) \/ k \in DOMAIN data) => SearchFinds(k)
        /\ (pc[p] \in {"keyset", "data"} /\ call[p].op \in {"Delete", "LoadAndDelete"}) =>
              call[p].key \notin Elems(keys)

C20_Witness ==
    \E p \in Procs :
        /\ pc[p] = "keyset"
        /\ call[p].op = "LoadAndDelete"
        /\ call[p].key = MaxKey
        /\ Len(keys) = MaxKey - 1
        /\ Cardinality(DOMAIN data) = MaxKey

====
